---- MODULE Spec2Model ----
(***************************************************************************)
(* The reactivity runtime of src/desktop/app.js (sources, deriveds,        *)
(* effects, the microtask drain, root scopes and forks) as a state         *)
(* machine.  Every runtime function is an operator from a runtime state    *)
(* (a record holding every object's fields and the module globals) to the  *)
(* state it leaves behind; a thrown exception is the field exc, which the  *)
(* callers thread through their try/finally blocks as the code does.  User *)
(* closures (the fn of a derived or an effect, the body of a fork) are     *)
(* small instruction lists run by RunFn.                                   *)
(***************************************************************************)
EXTENDS Integers, Sequences, FiniteSets, TLC

\* ------------------------------------------------------------- bounds
\* Source values written by the environment range over 0..MaxVal.
MaxVal == 1
\* Number of effect objects that may be allocated in one behaviour.
MaxEffects == 3
\* Number of fork maps that may be allocated in one behaviour.
MaxForks == 1
\* Number of environment operations in one behaviour.
MaxSteps == 5

\* ------------------------------------------------------------- values
\* JavaScript null as a stored value (a derived's v before its first run).
NullV == -1
\* The null reference (no parent, no sibling, empty reaction-stack slot).
NULL == <<"null", 0>>

\* null coerces to 0 in the arithmetic the closures perform.
Num(val) == IF val = NullV THEN 0 ELSE val
\* JavaScript truthiness of a stored value.
Truthy(val) == val # NullV /\ val # 0

\* ------------------------------------------------------------- nodes
x == <<"src", 1>>
y == <<"src", 2>>
b == <<"der", 1>>
c == <<"der", 2>>
d == <<"der", 3>>
m == <<"der", 4>>
w == <<"der", 5>>
t == <<"der", 6>>
u == <<"der", 7>>
g == <<"der", 8>>
Eff(k) == <<"eff", k>>

Sources == {x, y}
Deriveds == {b, c, d, m, w, t, u, g}
Effects == {Eff(k) : k \in 1..MaxEffects}
ValNodes == Sources \cup Deriveds
Reactions == Deriveds \cup Effects
Nodes == Sources \cup Deriveds \cup Effects

\* ------------------------------------------------------------- closures
\* Instructions of a user closure.  The value a closure returns is the sum
\* of what it read (a derived's value); an effect's return value is its
\* cleanup (Cleanup below).
G(n) == <<"get", n, NULL>>          \* acc += n()
GE(n, n2) == <<"getelse", n, n2>>   \* t = n(); acc += t; if (!t) acc += n2()
K(k) == <<"const", k, NULL>>        \* acc += k
S(s, k) == <<"set", s, k>>          \* set_s(k)
E(p) == <<"effect", p, NULL>>       \* effect(p)
TI(n) == <<"throwif", n, NULL>>     \* if (n()) throw new Error()
UT(p) == <<"untrack", p, NULL>>     \* acc += untrack(p)
SU(s) == <<"update", s, NULL>>      \* set_s(prev => prev ? 0 : 1)
R(p) == <<"root", p, NULL>>         \* root(p)

\* const b = derived(() => x() + x()), c = derived(() => x() + 1),
\* d = derived(() => b() + c()), m = derived(() => y() || b()),
\* w = derived(() => { set_x(1); return 0; }),
\* t = derived(() => { if (y()) throw new Error(); return x(); }),
\* u = derived(() => untrack(() => x()) + y()),
\* g = derived(() => { effect(() => { x(); y(); }); effect(() => { y(); }); return 0; })
DerivedFn(n) ==
    CASE n = b -> <<G(x), G(x)>>
      [] n = c -> <<G(x), K(1)>>
      [] n = d -> <<G(b), G(c)>>
      [] n = m -> <<GE(y, b)>>
      [] n = w -> <<S(x, 1)>>
      [] n = t -> <<TI(y), G(x)>>
      [] n = u -> <<UT("ux"), G(y)>>
      [] n = g -> <<E("xy"), E("y"), K(0)>>

\* The closures handed to effect(), root(), fork() and with().
Code(p) ==
    CASE p = "y" -> <<G(y)>>
      [] p = "xy" -> <<G(x), G(y)>>
      [] p = "d" -> <<G(d)>>
      [] p = "x+clean" -> <<G(x)>>
      [] p = "x,eff y" -> <<G(x), E("y")>>
      [] p = "eff x+clean" -> <<E("x+clean")>>
      [] p = "y?throw" -> <<TI(y)>>
      [] p = "set y,set x,get b" -> <<S(y, 1), S(x, 1), G(b)>>
      [] p = "reset x,get b" -> <<S(x, 0), G(b)>>
      [] p = "get w" -> <<G(w)>>
      [] p = "t" -> <<G(t)>>
      [] p = "get t" -> <<G(t)>>
      [] p = "x+badclean" -> <<G(x)>>
      [] p = "y,clear y" -> <<G(y), S(y, 0)>>
      [] p = "ux" -> <<G(x)>>
      [] p = "untrack x,y" -> <<UT("ux"), G(y)>>
      [] p = "untrack(untrack x,y),x" -> <<UT("untrack x,y"), G(x)>>
      [] p = "untrack(y?throw),x" -> <<UT("y?throw"), G(x)>>
      [] p = "y|clean" -> <<G(y)>>
      [] p = "x,root y" -> <<G(x), R("y")>>
      [] p = "set x,toggle x" -> <<S(x, 1), SU(x)>>
      [] p = "null x,set x" -> <<S(x, NullV), S(x, 0)>>
      [] p = "m" -> <<G(m)>>
      [] p = "set x,get m" -> <<S(x, 1), G(m)>>
      [] p = "set y" -> <<S(y, 1)>>
      [] p = "get b" -> <<G(b)>>
      [] p = "untrack b" -> <<UT("get b")>>
      [] p = "y,eff y" -> <<G(y), E("y")>>
      [] p = "nop" -> << >>

\* What the closure returns: "none" (undefined), or a cleanup function
\* that returns ("ok") or throws ("throw").
Cleanup(p) ==
    CASE p = "x+clean" -> "ok"
      [] p = "x+badclean" -> "throw"
      [] OTHER -> "none"
\* What a run of the closure that summed acc returns: "y|clean" returns a
\* cleanup only when y() was falsy.
Returns(p, acc) ==
    IF p = "y|clean" THEN (IF acc = 0 THEN "ok" ELSE "none") ELSE Cleanup(p)
\* The updater prev => prev ? 0 : 1.
Toggle(val) == IF Truthy(val) THEN 0 ELSE 1

\* ------------------------------------------------------------- sequences
Range(s) == {s[i] : i \in 1..Len(s)}
Includes(s, e) == \E i \in 1..Len(s) : s[i] = e
\* Array.prototype.indexOf, 0-based, -1 when absent.
IndexOf(s, e) ==
    IF Includes(s, e) THEN (CHOOSE i \in 1..Len(s) : s[i] = e /\ \A j \in 1..(i - 1) : s[j] # e) - 1
    ELSE -1
RemoveAt(s, i) == SubSeq(s, 1, i - 1) \o SubSeq(s, i + 1, Len(s))
\* s.splice(s.indexOf(e), 1): a start of -1 counts from the end, so an
\* absent e removes the last element.
SpliceIndexOf(s, e) ==
    IF Len(s) = 0 THEN s
    ELSE IF IndexOf(s, e) = -1 THEN RemoveAt(s, Len(s))
    ELSE RemoveAt(s, IndexOf(s, e) + 1)
Top(s) == IF Len(s) = 0 THEN NULL ELSE s[Len(s)]
Pop(s) == IF Len(s) = 0 THEN s ELSE SubSeq(s, 1, Len(s) - 1)

\* A Map<Source, any>: the entries in insertion order.
MapHas(mp, n) == \E i \in 1..Len(mp) : mp[i][1] = n
MapGet(mp, n) == mp[CHOOSE i \in 1..Len(mp) : mp[i][1] = n][2]
MapSet(mp, n, val) ==
    IF MapHas(mp, n) THEN [i \in 1..Len(mp) |-> IF mp[i][1] = n THEN <<n, val>> ELSE mp[i]]
    ELSE Append(mp, <<n, val>>)
\* ------------------------------------------------------------- runtime
(***************************************************************************)
(* A runtime state st is a record:                                         *)
(*   v, f              value and flag bits of every node                   *)
(*   reactions         the array source.reactions; has_reactions is the    *)
(*                     set of nodes whose reactions is not null (an array  *)
(*                     emptied by splice stays an array)                   *)
(*   deps              reaction.deps (null and [] are not told apart: the  *)
(*                     code resets deps to null whenever it empties it)    *)
(*   effects           derived.effects; has_effects as for reactions       *)
(*   fn, teardown, parent, next, prev, head, tail, root_idx                *)
(*                     the remaining fields of every effect object         *)
(*   reaction_stack, queue, tracking, active_fork, applying_fork,          *)
(*   root_index        the module globals; a fork is an index into forks,  *)
(*                     0 is null                                           *)
(*   microtasks        drain callbacks handed to queueMicrotask, not run   *)
(*   n_effects         effect objects allocated so far                     *)
(*   exc               the exception in flight ("none" when there is none; *)
(*                     "hang" stands for a call that never returns)        *)
(*   ret, changed      the value the last call returned                    *)
(*   overflow          an allocation beyond MaxEffects was asked for       *)
(* and the observers, which no operator of the runtime reads:              *)
(*   calls, cleaned    how often each fn / each cleanup was invoked, and   *)
(*   pushed            how often each effect was appended to the queue,    *)
(*                     since the operation began                           *)
(*   raised            the reactions whose fn threw, since the operation   *)
(*                     began                                               *)
(*   flaws             what went wrong since the operation began:          *)
(*                     "updater" (an updater was handed a value read() would *)
(*                     not return), "shadow" (a set in a fork left a shadow  *)
(*                     that is not the value set), "cleanup_twice" (a        *)
(*                     cleanup was invoked a second time), "exposed" (an     *)
(*                     effect run by the drain read a fork's shadow value)   *)
(*   spent             the effects whose stored cleanup has been invoked     *)
(*   drain_effect      the effect the drain is running (NULL outside)      *)
(*   stale             who read a derived whose returned value is not its  *)
(*                     fn over the current source values ("fork": the body *)
(*                     of a fork, over the values visible in the fork)     *)
(*   threw             a user closure has thrown                           *)
(*   last              per derived, the value its last read returned, if   *)
(*                     no source has changed since                         *)
(*   inval             the deriveds that had no reaction when a source     *)
(*                     they depend on changed, and were not read since     *)
(***************************************************************************)
IsDerived(st, n) == "DERIVED" \in st.f[n]
\* Sources and deriveds are created at top level: their parent is null.
ParentOf(st, n) == IF n \in Effects THEN st.parent[n] ELSE NULL

Throw(st, e) == [st EXCEPT !.exc = e, !.threw = @ \/ e \in {"Error", "state_unsafe_mutation"}]
\* A return statement inside a finally block: the exception in flight, if
\* any, is discarded.
Return(st) == [st EXCEPT !.exc = "none"]

\* fn over the given source values with no memoisation: <<"val", k>> when
\* the derived is meant to hold k, <<"throws", 0>> when its fn throws.
RECURSIVE PureRun(_, _, _, _)
PureEval(vals, n) ==
    IF n \in Sources THEN <<"val", vals[n]>> ELSE PureRun(vals, DerivedFn(n), 1, 0)
PureRun(vals, code, i, acc) ==
    LET ins == code[i]
        Second(r2, k) ==
            IF r2[1] = "throws" THEN r2 ELSE PureRun(vals, code, i + 1, acc + k + Num(r2[2]))
        First(r) ==
            IF r[1] = "throws" THEN r
            ELSE IF ins[1] = "throwif"
            THEN IF Truthy(r[2]) THEN <<"throws", 0>> ELSE PureRun(vals, code, i + 1, acc)
            ELSE IF ins[1] = "getelse" /\ ~Truthy(r[2])
            THEN Second(PureEval(vals, ins[3]), Num(r[2]))
            ELSE PureRun(vals, code, i + 1, acc + Num(r[2]))
    IN  IF i > Len(code) THEN <<"val", acc>>
        ELSE CASE ins[1] \in {"get", "getelse", "throwif"} -> First(PureEval(vals, ins[2]))
               [] ins[1] = "untrack" -> First(PureRun(vals, Code(ins[2]), 1, 0))
               [] ins[1] = "const" -> PureRun(vals, code, i + 1, acc + ins[2])
               [] ins[1] \in {"effect", "root"} -> PureRun(vals, code, i + 1, acc)
               [] OTHER -> <<"throws", 0>>

\* Who is reading: the environment, a cleanup, a derived's fn, an effect's
\* fn run by the drain, or an effect's fn on its first run.
Reader(st) ==
    LET top == Top(st.reaction_stack) IN
    IF Len(st.reaction_stack) = 0 THEN "top"
    ELSE IF top = NULL THEN "cleanup"
    ELSE IF IsDerived(st, top) THEN "derived"
    ELSE IF top = st.drain_effect THEN "drain"
    ELSE "first"

\* The values the sources have inside the active fork.
ForkVals(st) ==
    [s \in Sources |-> IF MapHas(st.forks[st.active_fork], s)
                       THEN MapGet(st.forks[st.active_fork], s)
                       ELSE st.v[s]]

\* A read of source made with a fork active has returned val.
ObserveFork(st, source, val) ==
    IF Len(st.reaction_stack) = 0
       /\ PureEval(ForkVals(st), source) \notin {<<"throws", 0>>, <<"val", val>>}
    THEN [st EXCEPT !.stale = @ \cup {"fork"}]
    ELSE IF Reader(st) = "drain" /\ source \in Sources /\ val # st.v[source]
    THEN [st EXCEPT !.flaws = @ \cup {"exposed"}]
    ELSE st

\* A read of the derived source has returned val.
Observe(st, source, val) ==
    IF st.active_fork # 0 THEN ObserveFork(st, source, val)
    ELSE [st EXCEPT !.stale = IF PureEval(st.v, source) \notin {<<"throws", 0>>, <<"val", val>>}
                              THEN @ \cup {Reader(st)} ELSE @,
                    !.last[source] = <<"val", val>>,
                    !.inval = @ \ {source}]

\* Does the reaction r depend on source, directly or through deriveds?
RECURSIVE DependsOn(_, _, _, _)
DependsOn(st, r, source, fuel) ==
    /\ fuel > 0
    /\ \E dep \in Range(st.deps[r]) :
          dep = source \/ (dep \in Deriveds /\ DependsOn(st, dep, source, fuel - 1))

\* The value of source has been changed by a set.
ObserveSet(st, source) ==
    [st EXCEPT !.last = [n \in Deriveds |-> <<"none", 0>>],
               !.inval = IF st.active_fork # 0 THEN @
                         ELSE @ \cup {n \in Deriveds : /\ st.reactions[n] = << >>
                                                       /\ "UNINITIALIZED" \notin st.f[n]
                                                       /\ DependsOn(st, n, source, Cardinality(Deriveds))}]

\* Mutant of UnlinkDeps: deps is emptied, the reactions are left alone.
UnlinkDepsForgotten(reacts, ds, r) == reacts

\* while ((dep = r.deps.shift())) dep.reactions.splice(dep.reactions.indexOf(r), 1)
RECURSIVE UnlinkDeps(_, _, _)
UnlinkDeps(reacts, ds, r) ==
    IF ds = << >> THEN reacts
    ELSE UnlinkDeps([reacts EXCEPT ![Head(ds)] = SpliceIndexOf(@, r)], Tail(ds), r)

\* The effects reached from curr through next.
RECURSIVE ListFrom(_, _, _)
ListFrom(st, curr, fuel) ==
    IF curr = NULL \/ fuel = 0 THEN << >>
    ELSE <<curr>> \o ListFrom(st, st.next[curr], fuel - 1)

RECURSIVE get(_, _), update_derived(_, _), teardown_effect(_, _), TeardownChildren(_, _),
          TeardownDerivedEffects(_, _), mark_dirty(_, _), UpdateQueued(_, _), set(_, _, _),
          create_effect(_, _, _), RunFn(_, _, _, _)

\* Mutant of Tracks: the tracking flag is not looked at.
TracksAlways(st, source) ==
    /\ Len(st.reaction_stack) > 0
    /\ Top(st.reaction_stack) # NULL
    /\ ~Includes(st.reactions[source], Top(st.reaction_stack))
    /\ source # Top(st.reaction_stack)
    /\ "ROOT" \notin st.f[Top(st.reaction_stack)]

\* The condition under which get links source and the running reaction.
Tracks(st, source) ==
    /\ st.tracking
    /\ Len(st.reaction_stack) > 0
    /\ Top(st.reaction_stack) # NULL
    /\ ~Includes(st.reactions[source], Top(st.reaction_stack))
    /\ source # Top(st.reaction_stack)
    /\ "ROOT" \notin st.f[Top(st.reaction_stack)]

get(st, source) ==
    LET reaction == Top(st.reaction_stack)
        \* source.f &= ~(UNINITIALIZED | MAYBE_DIRTY); return source.v
        Value(s2) ==
            IF s2.exc # "none" THEN s2
            ELSE Observe([s2 EXCEPT !.f[source] = @ \ {"UNINITIALIZED", "MAYBE_DIRTY"},
                                    !.ret = s2.v[source]],
                         source, s2.v[source])
        Read(s1) ==
            IF s1.active_fork # 0 /\ MapHas(s1.forks[s1.active_fork], source)
            THEN ObserveFork([s1 EXCEPT !.ret = MapGet(s1.forks[s1.active_fork], source)],
                             source, MapGet(s1.forks[s1.active_fork], source))
            ELSE IF IsDerived(s1, source)
            THEN Value(IF s1.f[source] \cap {"UNINITIALIZED", "MAYBE_DIRTY"} # {}
                       THEN update_derived(s1, source)
                       ELSE s1)
            ELSE [s1 EXCEPT !.ret = s1.v[source]]
    IN  Read(IF Tracks(st, source)
             THEN [st EXCEPT !.reactions[source] = Append(@, reaction),
                             !.has_reactions = @ \cup {source},
                             !.deps[reaction] = Append(@, source)]
             ELSE st)

\* while ((effect = derived.effects.shift())) teardown_effect(effect);
\* derived.effects = null
TeardownDerivedEffects(st, derived) ==
    LET Rest(s1) == IF s1.exc # "none" THEN s1 ELSE TeardownDerivedEffects(s1, derived)
    IN  IF st.effects[derived] = << >>
        THEN [st EXCEPT !.has_effects = @ \ {derived}]
        ELSE Rest(teardown_effect([st EXCEPT !.effects[derived] = Tail(@)],
                                  Head(st.effects[derived])))

\* Mutant of Stores: next is not compared with EMPTY.
StoresThrown(st, derived, prev_value) ==
    st.ret # prev_value \/ "UNINITIALIZED" \in st.f[derived]

\* next !== EMPTY && (!Object.is(prev_value, next) || (derived.f & UNINITIALIZED) !== 0)
Stores(st, derived, prev_value) ==
    st.exc = "none" /\ (st.ret # prev_value \/ "UNINITIALIZED" \in st.f[derived])

update_derived(st, derived) ==
    LET \* the finally block: next is EMPTY when fn threw
        Keep(s4, prev_value) ==
            IF ~Stores(s4, derived, prev_value) THEN [s4 EXCEPT !.changed = FALSE]
            ELSE IF s4.active_fork # 0
            THEN [s4 EXCEPT !.forks[s4.active_fork] = MapSet(@, derived, s4.ret),
                            !.changed = TRUE]
            ELSE [s4 EXCEPT !.v[derived] = s4.ret, !.changed = TRUE]
        Store(s3, prev_value) ==
            IF s3.exc = "hang" THEN s3
            ELSE Keep([s3 EXCEPT !.reaction_stack = Pop(@),
                                 !.raised = IF s3.exc # "none" THEN @ \cup {derived} ELSE @],
                      prev_value)
        Call(s2) ==
            Store(RunFn([s2 EXCEPT !.reaction_stack = Append(@, derived),
                                   !.calls[derived] = @ + 1],
                        DerivedFn(derived), 1, 0),
                  IF s2.active_fork # 0 /\ MapHas(s2.forks[s2.active_fork], derived)
                  THEN MapGet(s2.forks[s2.active_fork], derived)
                  ELSE s2.v[derived])
        Unlink(s1) ==
            IF s1.exc # "none" THEN s1
            ELSE Call([s1 EXCEPT !.reactions = UnlinkDeps(@, s1.deps[derived], derived),
                                 !.deps[derived] = << >>])
    IN  Unlink(IF derived \in st.has_effects THEN TeardownDerivedEffects(st, derived) ELSE st)

\* let curr = effect.head; while (curr) { teardown_effect(curr); curr = curr.next; }
TeardownChildren(st, curr) ==
    LET Rest(s1) == IF s1.exc # "none" THEN s1 ELSE TeardownChildren(s1, s1.next[curr])
    IN  IF curr = NULL THEN st ELSE Rest(teardown_effect(st, curr))

\* The cleanup stored in effect.teardown is being invoked.
Invoked(st, effect) ==
    [st EXCEPT !.cleaned[effect] = @ + 1,
               !.flaws = IF effect \in st.spent THEN @ \cup {"cleanup_twice"} ELSE @,
               !.spent = @ \cup {effect}]

teardown_effect(st, effect) ==
    LET \* if (effect.teardown) { ... (0, effect.teardown)() ... }
        Clean(s3) ==
            IF s3.exc # "none" THEN s3
            ELSE IF s3.teardown[effect] = "none" THEN s3
            ELSE IF s3.teardown[effect] = "throw"
            THEN Throw(Invoked(s3, effect), "Error")
            ELSE Invoked(s3, effect)
        Detach(s2) ==
            Clean(IF s2.next[effect] # NULL
                  THEN [s2 EXCEPT !.prev[s2.next[effect]] = s2.prev[effect]]
                  ELSE IF s2.prev[effect] # NULL
                  THEN [s2 EXCEPT !.prev[effect] = NULL]
                  ELSE IF s2.parent[effect] # NULL
                  THEN IF IsDerived(s2, s2.parent[effect])
                       THEN IF s2.parent[effect] \notin s2.has_effects
                            THEN Throw(s2, "TypeError")
                            ELSE [s2 EXCEPT !.effects[s2.parent[effect]] = SpliceIndexOf(@, effect)]
                       ELSE [s2 EXCEPT !.head[s2.parent[effect]] = NULL,
                                       !.tail[s2.parent[effect]] = NULL]
                  ELSE s2)
        Unlink(s1) ==
            IF s1.exc # "none" THEN s1
            ELSE Detach([s1 EXCEPT !.reactions = UnlinkDeps(@, s1.deps[effect], effect),
                                   !.deps[effect] = << >>])
    IN  Unlink(TeardownChildren(st, st.head[effect]))

\* get_effect_depth: the number of parent links above effect.
RECURSIVE get_effect_depth(_, _)
get_effect_depth(st, effect) ==
    IF ParentOf(st, effect) = NULL THEN 0
    ELSE 1 + get_effect_depth(st, ParentOf(st, effect))

\* The first of a and b_ met in list, "none" when neither is in it.
FirstOf(list, a, b_) ==
    LET hits == {i \in 1..Len(list) : list[i] = a \/ list[i] = b_} IN
    IF hits = {} THEN "none"
    ELSE LET i == CHOOSE j \in hits : \A k \in hits : j <= k IN
         IF list[i] = a THEN "a" ELSE "b"

\* The loop `while (curr_a && curr_b)` of the inner sort_effects(a, b).  A
\* common ancestor whose child list holds neither prev_a nor prev_b leaves
\* the loop with nothing changed: it never ends.
RECURSIVE Climb(_, _, _, _, _)
Climb(st, prev_a, prev_b, curr_a, curr_b) ==
    IF curr_a = NULL \/ curr_b = NULL THEN "a"
    ELSE IF curr_a = curr_b
    THEN LET list == IF curr_a \in Effects THEN ListFrom(st, st.head[curr_a], MaxEffects + 1)
                     ELSE << >>
             first == FirstOf(list, prev_a, prev_b)
         IN  IF first = "none" THEN "hang" ELSE first
    ELSE Climb(st, curr_a, curr_b, ParentOf(st, curr_a), ParentOf(st, curr_b))

\* The inner sort_effects(a, b): "a" or "b" (the one that comes first),
\* "TypeError" (derived.effects is null) or "hang".
Compare(st, a, b_) ==
    LET parent == ParentOf(st, a)
        same == IF parent # ParentOf(st, b_) THEN "none"
                ELSE IF parent # NULL /\ IsDerived(st, parent)
                THEN IF parent \notin st.has_effects THEN "TypeError"
                     ELSE IF IndexOf(st.effects[parent], a) < IndexOf(st.effects[parent], b_)
                          THEN "a" ELSE "b"
                ELSE FirstOf(ListFrom(st, st.head[parent], MaxEffects + 1), a, b_)
    IN  IF same # "none" THEN same
        ELSE Climb(st, a, b_, ParentOf(st, a), ParentOf(st, b_))

\* (a, b) => (a.root_index ?? 0) - (b.root_index ?? 0)
RootLess(st, a, b_) ==
    IF Num(st.root_idx[a]) - Num(st.root_idx[b_]) < 0 THEN "yes" ELSE "no"
\* (a, b) => (sort_effects(a, b) === a ? -1 : 1)
TreeLess(st, a, b_) ==
    LET Sign(r) == IF r = "a" THEN "yes" ELSE IF r = "b" THEN "no" ELSE r
    IN  Sign(Compare(st, a, b_))
\* The comparator of the layer at depth: "yes" (negative), "no", or the
\* exception it raises.
Less(st, depth, a, b_) ==
    IF depth = 0 THEN RootLess(st, a, b_) ELSE TreeLess(st, a, b_)

\* layer.toSorted(cmp) as an insertion sort: each element is compared with
\* the already sorted ones from the right, cmp(new, sorted[j]) < 0 moving it
\* left.
RECURSIVE InsertAt(_, _, _, _, _)
InsertAt(st, depth, sorted, e, j) ==
    LET Place(r) ==
            IF r = "yes" THEN InsertAt(st, depth, sorted, e, j - 1)
            ELSE IF r = "no"
            THEN [exc |-> "none",
                  seq |-> SubSeq(sorted, 1, j) \o <<e>> \o SubSeq(sorted, j + 1, Len(sorted))]
            ELSE [exc |-> r, seq |-> sorted]
    IN  IF j = 0 THEN [exc |-> "none", seq |-> <<e>> \o sorted]
        ELSE Place(Less(st, depth, e, sorted[j]))
RECURSIVE ToSorted(_, _, _, _)
ToSorted(st, depth, layer, sorted) ==
    LET Rest(r) == IF r.exc # "none" THEN r
                   ELSE ToSorted(st, depth, Tail(layer), r.seq)
    IN  IF layer = << >> THEN [exc |-> "none", seq |-> sorted]
        ELSE Rest(InsertAt(st, depth, sorted, Head(layer), Len(sorted)))

\* The layers by ascending depth, each sorted, concatenated.
RECURSIVE SortLayers(_, _, _, _)
SortLayers(st, list, depth, res) ==
    LET Collect(sorted) ==
            IF sorted.exc # "none" THEN sorted
            ELSE SortLayers(st, list, depth + 1, res \o sorted.seq)
    IN  IF depth > MaxEffects + 1 THEN [exc |-> "none", seq |-> res]
        ELSE Collect(ToSorted(st, depth,
                              SelectSeq(list, LAMBDA e : get_effect_depth(st, e) = depth),
                              << >>))

sort_effects(st, list) == SortLayers(st, list, 0, << >>)

\* Is an ancestor of effect, reached without crossing a derived, in list?
RECURSIVE AncestorIn(_, _, _)
AncestorIn(st, curr, list) ==
    IF curr = NULL THEN FALSE
    ELSE IF IsDerived(st, curr) THEN FALSE
    ELSE IF Includes(list, curr) THEN TRUE
    ELSE AncestorIn(st, ParentOf(st, curr), list)

filter_effects(st, list) ==
    SelectSeq(list, LAMBDA effect : ~AncestorIn(st, ParentOf(st, effect), list))

\* for (const derived of queued_deriveds) { if (update_derived(derived)) mark_dirty(derived) }
UpdateQueued(st, queued_deriveds) ==
    LET Rest(s2) == IF s2.exc # "none" THEN s2 ELSE UpdateQueued(s2, Tail(queued_deriveds))
        Mark(s1) == Rest(IF s1.exc = "none" /\ s1.changed
                         THEN mark_dirty(s1, Head(queued_deriveds))
                         ELSE s1)
    IN  IF queued_deriveds = << >> THEN st
        ELSE Mark(update_derived(st, Head(queued_deriveds)))

\* for (const effect of filtered) if ((effect.f & DIRTY) === 0) { ... queue.push(effect) }
RECURSIVE PushEffects(_, _)
PushEffects(st, filtered) ==
    IF filtered = << >> THEN st
    ELSE IF "DIRTY" \notin st.f[Head(filtered)]
    THEN PushEffects([st EXCEPT !.f[Head(filtered)] = @ \cup {"DIRTY"},
                                !.queue = Append(@, Head(filtered)),
                                !.pushed[Head(filtered)] = @ + 1],
                     Tail(filtered))
    ELSE PushEffects(st, Tail(filtered))

\* if (applying_fork !== null && applying_fork.has(source) && applying_fork.has(reaction)) continue
Skipped(st, source, r) ==
    /\ st.applying_fork # 0
    /\ MapHas(st.forks[st.applying_fork], source)
    /\ MapHas(st.forks[st.applying_fork], r)

\* The deriveds among source.reactions whose reactions is not null.
QueuedDeriveds(st, source) ==
    SelectSeq(st.reactions[source],
              LAMBDA r : IsDerived(st, r) /\ ~Skipped(st, source, r) /\ r \in st.has_reactions)

\* Mutant of MaybeDirty: a derived nobody reads is not marked.
MaybeDirtyForgotten(st, source) == {}

\* The deriveds among source.reactions whose reactions is null.
MaybeDirty(st, source) ==
    {r \in Range(st.reactions[source]) :
        IsDerived(st, r) /\ ~Skipped(st, source, r) /\ r \notin st.has_reactions}

\* Mutant of ToCheck: the effects are collected in a fork too.
ToCheckInFork(st, source) ==
    SelectSeq(st.reactions[source], LAMBDA r : ~IsDerived(st, r) /\ "DIRTY" \notin st.f[r])

\* The effects among source.reactions that are not DIRTY; none in a fork.
ToCheck(st, source) ==
    SelectSeq(st.reactions[source],
              LAMBDA r : ~IsDerived(st, r) /\ "DIRTY" \notin st.f[r] /\ st.active_fork = 0)

\* if (should_queue && prev_queue === 0) queueMicrotask(...)
Schedules(prev_queue, new_queue) == new_queue > prev_queue /\ prev_queue = 0

mark_dirty(st, source) ==
    LET Schedule(s3, prev_queue) ==
            [s3 EXCEPT !.microtasks = IF Schedules(prev_queue, Len(s3.queue)) THEN @ + 1 ELSE @,
                       !.f[source] = @ \ {"DIRTY"}]
        Push(s2, filtered) ==
            IF filtered.exc # "none" THEN Throw(s2, filtered.exc)
            ELSE Schedule(PushEffects(s2, filtered.seq), Len(s2.queue))
        \* to_check was collected before the deriveds were updated
        Sort(s2) ==
            IF s2.exc # "none" THEN s2
            ELSE Push(s2, sort_effects(s2, filter_effects(s2, ToCheck(st, source))))
    IN  IF source \notin st.has_reactions THEN [st EXCEPT !.f[source] = @ \ {"DIRTY"}]
        ELSE Sort(UpdateQueued([st EXCEPT !.f = [n \in Nodes |->
                                                   IF n = source THEN st.f[n] \cup {"DIRTY"}
                                                   ELSE IF n \in MaybeDirty(st, source)
                                                   THEN st.f[n] \cup {"MAYBE_DIRTY"}
                                                   ELSE st.f[n]]],
                               QueuedDeriveds(st, source)))

\* Mutant of UnsafeMutation: the running reaction is not looked at.
UnsafeMutationUnchecked(st) == FALSE

\* reaction_stack.length > 0 && reaction !== null && (reaction.f & DERIVED) !== 0
UnsafeMutation(st) ==
    /\ Len(st.reaction_stack) > 0
    /\ Top(st.reaction_stack) # NULL
    /\ IsDerived(st, Top(st.reaction_stack))

\* Mutant of PrevValue: active_fork?.get(source), without the fallback.
PrevValueForkOnly(st, source) ==
    IF st.active_fork # 0 /\ MapHas(st.forks[st.active_fork], source)
    THEN MapGet(st.forks[st.active_fork], source)
    ELSE NullV

\* active_fork?.get(source) ?? source.v
PrevValue(st, source) ==
    IF /\ st.active_fork # 0
       /\ MapHas(st.forks[st.active_fork], source)
       /\ MapGet(st.forks[st.active_fork], source) # NullV
    THEN MapGet(st.forks[st.active_fork], source)
    ELSE st.v[source]

\* set(source, value) has returned: did it leave a shadow value that source
\* had in the active fork different from value?
ObserveShadow(st, s2, source, value) ==
    IF /\ st.active_fork # 0
       /\ MapHas(st.forks[st.active_fork], source)
       /\ MapGet(s2.forks[st.active_fork], source) # value
    THEN [s2 EXCEPT !.flaws = @ \cup {"shadow"}]
    ELSE s2

set(st, source, value) ==
    LET Result(s2) == IF s2.exc # "none" THEN s2
                      ELSE ObserveShadow(st, [s2 EXCEPT !.ret = value], source, value)
    IN  IF UnsafeMutation(st) THEN Throw(st, "state_unsafe_mutation")
        ELSE IF PrevValue(st, source) # value
        THEN Result(mark_dirty(ObserveSet(IF st.active_fork # 0
                                          THEN [st EXCEPT !.forks[st.active_fork] =
                                                              MapSet(@, source, value)]
                                          ELSE [st EXCEPT !.v[source] = value],
                                          source),
                               source))
        ELSE ObserveShadow(st, [st EXCEPT !.ret = value], source, value)

\* create_effect(fn, flags).  Every path through the finally block ends in
\* `return reaction`, which discards an exception fn threw, unless the
\* effect is disconnected, kept and has a parent (then it is linked).
create_effect(st, p, flags) ==
    LET disconnected == "DISCONNECTED_EFFECT" \in flags
        reaction == Eff(st.n_effects + 1)
        top_level == Len(st.reaction_stack) = 0
        Link(s3) ==
            IF ~disconnected THEN Return(s3)
            ELSE IF s3.teardown[reaction] = "none" /\ s3.deps[reaction] = << >>
                    /\ s3.head[reaction] = NULL
            THEN Return(s3)
            ELSE IF s3.parent[reaction] = NULL THEN Return(s3)
            ELSE IF IsDerived(s3, s3.parent[reaction])
            THEN [s3 EXCEPT !.effects[s3.parent[reaction]] = Append(@, reaction),
                            !.has_effects = @ \cup {s3.parent[reaction]}]
            ELSE IF s3.head[s3.parent[reaction]] = NULL
            THEN [s3 EXCEPT !.head[s3.parent[reaction]] = reaction,
                            !.tail[s3.parent[reaction]] = reaction]
            ELSE [s3 EXCEPT !.next[s3.tail[s3.parent[reaction]]] = reaction,
                            !.prev[reaction] = s3.tail[s3.parent[reaction]],
                            !.tail[s3.parent[reaction]] = reaction]
        Finally(s2) ==
            IF s2.exc = "hang" \/ s2.overflow THEN s2
            ELSE Link([s2 EXCEPT !.reaction_stack = Pop(@),
                                 !.raised = IF s2.exc # "none" THEN @ \cup {reaction} ELSE @,
                                 !.teardown[reaction] =
                                     IF s2.exc = "none" /\ Returns(p, s2.ret) # "none"
                                     THEN Returns(p, s2.ret) ELSE @])
    IN  IF st.n_effects >= MaxEffects THEN [st EXCEPT !.overflow = TRUE]
        ELSE Finally(RunFn([st EXCEPT !.n_effects = @ + 1,
                                      !.f[reaction] = flags,
                                      !.fn[reaction] = p,
                                      !.teardown[reaction] = "none",
                                      !.parent[reaction] = IF disconnected THEN NULL
                                                           ELSE Top(st.reaction_stack),
                                      !.root_idx[reaction] = IF top_level THEN st.root_index
                                                             ELSE NullV,
                                      !.root_index = IF top_level THEN @ + 1 ELSE @,
                                      !.reaction_stack = Append(@, reaction),
                                      !.calls[reaction] = @ + 1],
                           Code(p), 1, 0))

\* The write accessor of source is handed an updater: v => set(s, v(s.v)).
\* read() would return the shadow value of the active fork, if there is one.
ObserveUpdate(st, source) ==
    IF st.active_fork # 0 /\ MapHas(st.forks[st.active_fork], source)
       /\ Toggle(MapGet(st.forks[st.active_fork], source)) # Toggle(st.v[source])
    THEN [st EXCEPT !.flaws = @ \cup {"updater"}]
    ELSE st

\* The body of a user closure from instruction i on; acc is what it has
\* summed so far and returns.
RunFn(st, code, i, acc) ==
    LET ins == code[i]
        Rest(s1, sum) ==
            IF s1.exc # "none" \/ s1.overflow THEN s1 ELSE RunFn(s1, code, i + 1, sum)
        Second(s2, k) ==
            IF s2.exc # "none" THEN s2 ELSE Rest(s2, acc + k + Num(s2.ret))
        First(s1) ==
            IF s1.exc # "none" THEN s1
            ELSE IF ins[1] = "throwif"
            THEN IF Truthy(s1.ret) THEN Throw(s1, "Error") ELSE Rest(s1, acc)
            ELSE IF ins[1] = "getelse" /\ ~Truthy(s1.ret)
            THEN Second(get(s1, ins[3]), Num(s1.ret))
            ELSE Rest(s1, acc + Num(s1.ret))
        \* untrack: try { return fn() } finally { tracking = prev_tracking }
        Untracked(s1) ==
            IF s1.exc = "hang" THEN s1
            ELSE Rest([s1 EXCEPT !.tracking = st.tracking], acc + Num(s1.ret))
    IN  IF i > Len(code) THEN [st EXCEPT !.ret = acc]
        ELSE CASE ins[1] \in {"get", "getelse", "throwif"} -> First(get(st, ins[2]))
               [] ins[1] = "const" -> Rest(st, acc + ins[2])
               [] ins[1] \in {"set", "update"} ->
                      Rest(set(IF ins[1] = "update" THEN ObserveUpdate(st, ins[2]) ELSE st,
                               ins[2],
                               IF ins[1] = "update" THEN Toggle(st.v[ins[2]]) ELSE ins[3]),
                           acc)
               [] ins[1] \in {"effect", "root"} ->
                      Rest(create_effect(st, ins[2],
                                         IF ins[1] = "root" THEN {"ROOT", "DISCONNECTED_EFFECT"}
                                         ELSE {}),
                           acc)
               [] ins[1] = "untrack" ->
                      Untracked(RunFn([st EXCEPT !.tracking = FALSE], Code(ins[2]), 1, 0))

\* Mutant of Shifted: the effect taken from the queue keeps its DIRTY flag.
ShiftedStillDirty(st) == [st EXCEPT !.queue = Tail(@)]

\* effect = queue.shift(); effect.f &= ~DIRTY
Shifted(st) == [st EXCEPT !.queue = Tail(@), !.f[Head(st.queue)] = @ \ {"DIRTY"}]

\* The callback handed to queueMicrotask in mark_dirty:
\* while ((effect = queue.shift())) { ... }
RECURSIVE drain(_)
drain(st) ==
    LET effect == Head(st.queue)
        Finally(s3, p) ==
            IF s3.exc = "hang" \/ s3.overflow THEN s3
            ELSE IF s3.exc # "none"
            THEN [s3 EXCEPT !.reaction_stack = Pop(@), !.drain_effect = NULL,
                            !.raised = @ \cup {effect}]
            ELSE drain([s3 EXCEPT !.reaction_stack = Pop(@),
                                  !.drain_effect = NULL,
                                  !.teardown[effect] = IF Returns(p, s3.ret) # "none"
                                                       THEN Returns(p, s3.ret) ELSE @,
                                  !.spent = IF Returns(p, s3.ret) # "none"
                                            THEN @ \ {effect} ELSE @])
        Run(s2) ==
            IF s2.exc # "none" THEN s2
            ELSE Finally(RunFn([s2 EXCEPT !.reaction_stack = Append(@, effect),
                                          !.calls[effect] = @ + 1,
                                          !.drain_effect = effect],
                               Code(s2.fn[effect]), 1, 0),
                         s2.fn[effect])
    IN  IF st.queue = << >> THEN st
        ELSE Run(teardown_effect(Shifted(st), effect))

\* fork(fn) for a synchronous fn: active_fork is restored only when fn
\* returns.
fork(st, p) ==
    LET Restore(s2) ==
            IF s2.exc # "none" THEN s2
            ELSE [s2 EXCEPT !.active_fork = st.active_fork, !.ret = Len(st.forks) + 1]
    IN  Restore(RunFn([st EXCEPT !.forks = Append(@, << >>),
                                 !.active_fork = Len(st.forks) + 1],
                      Code(p), 1, 0))

\* Mutant of WithMap: fn runs against the fork's own map.
WithMapShared(st, fk) == fk

\* active_fork = new Map([...fork]): the clone is the map after the last.
WithMap(st, fk) == Len(st.forks) + 1

\* instance.with(fn): fn runs against a clone of the fork's map; the clone
\* is unreachable once active_fork is restored.
fork_with(st, fk, p) ==
    LET Restore(s2) ==
            IF s2.exc = "hang" THEN s2
            ELSE [s2 EXCEPT !.active_fork = st.active_fork,
                            !.forks = SubSeq(@, 1, Len(st.forks))]
    IN  Restore(RunFn([st EXCEPT !.forks = Append(@, st.forks[fk]),
                                 !.active_fork = WithMap(st, fk)],
                      Code(p), 1, 0))

\* fork(fn) for an async fn, whose body up to the first await is p: fn()
\* returns a promise, and active_fork stays the new map.
fork_async(st, p) ==
    RunFn([st EXCEPT !.forks = Append(@, << >>),
                     !.active_fork = Len(st.forks) + 1],
          Code(p), 1, 0)

\* res.then(() => { active_fork = prev_fork; return instance; })
settle(st, prev_fork) == [st EXCEPT !.active_fork = prev_fork]

\* for (const [source, value] of fork) set(source, value)
RECURSIVE ApplyEntries(_, _, _)
ApplyEntries(st, fk, i) ==
    LET Rest(s1) == IF s1.exc # "none" THEN s1 ELSE ApplyEntries(s1, fk, i + 1)
    IN  IF i > Len(st.forks[fk]) THEN st
        ELSE Rest(set(st, st.forks[fk][i][1], st.forks[fk][i][2]))

\* instance.apply(): applying_fork is restored only when every set returned.
fork_apply(st, fk) ==
    LET Restore(s1) ==
            IF s1.exc # "none" THEN s1
            ELSE [s1 EXCEPT !.applying_fork = st.applying_fork]
    IN  Restore(ApplyEntries([st EXCEPT !.applying_fork = fk], fk, 1))

\* root(fn): the effect it creates; the disposer returned calls
\* teardown_effect on it.
root(st, p) == create_effect(st, p, {"ROOT", "DISCONNECTED_EFFECT"})
\* ------------------------------------------------------------- state
VARIABLES v, f, reactions, has_reactions, deps, effects, has_effects,
          fn, teardown, parent, next, prev, head, tail, root_idx,
          reaction_stack, queue, tracking, active_fork, applying_fork, forks,
          root_index, microtasks, n_effects,
          handles,     \* the fork instances the environment holds
          disposers,   \* the root effects whose disposer the environment holds
          disposed,    \* the root effects whose disposer has been called
          pending,     \* the async forks whose promise is pending: <<fork, prev_fork>>
          entered,     \* the calls of apply() and with(g) made: <<instance, "apply">>, <<instance, g>>
          due,         \* the effects the last apply() invalidated, until a drain runs
          op,          \* the operation performed last, what it did, and what it started from
          stale, threw, last, inval, spent,   \* observers, see the runtime state
          steps        \* operations performed so far

vars == <<v, f, reactions, has_reactions, deps, effects, has_effects,
          fn, teardown, parent, next, prev, head, tail, root_idx,
          reaction_stack, queue, tracking, active_fork, applying_fork, forks,
          root_index, microtasks, n_effects, handles, disposers, disposed, pending,
          entered, due,
          op, stale, threw, last, inval, spent, steps>>

\* The runtime state the next operation starts from.
St ==
    [v |-> v, f |-> f, reactions |-> reactions, has_reactions |-> has_reactions,
     deps |-> deps, effects |-> effects, has_effects |-> has_effects,
     fn |-> fn, teardown |-> teardown, parent |-> parent, next |-> next,
     prev |-> prev, head |-> head, tail |-> tail, root_idx |-> root_idx,
     reaction_stack |-> reaction_stack, queue |-> queue, tracking |-> tracking,
     active_fork |-> active_fork, applying_fork |-> applying_fork, forks |-> forks,
     root_index |-> root_index, microtasks |-> microtasks, n_effects |-> n_effects,
     exc |-> "none", ret |-> 0, changed |-> FALSE, overflow |-> FALSE,
     calls |-> [n \in Reactions |-> 0], cleaned |-> [e \in Effects |-> 0],
     pushed |-> [e \in Effects |-> 0], raised |-> {}, flaws |-> {},
     spent |-> spent, drain_effect |-> NULL,
     stale |-> stale, threw |-> threw, last |-> last, inval |-> inval]

\* What an operation started from, for the properties that compare.
Pre ==
    [v |-> v, f |-> f, reactions |-> reactions, deps |-> deps, queue |-> queue,
     microtasks |-> microtasks, active_fork |-> active_fork, forks |-> forks,
     reaction_stack |-> reaction_stack, last |-> last, inval |-> inval, due |-> due,
     disposed |-> disposed, teardown |-> teardown, entered |-> entered,
     n_effects |-> n_effects, pending |-> pending, applying_fork |-> applying_fork]

\* The runtime state an operation leaves behind becomes the next state.
Commit(s, kind, node, val, p) ==
    /\ ~s.overflow
    /\ v' = s.v /\ f' = s.f /\ reactions' = s.reactions
    /\ has_reactions' = s.has_reactions /\ deps' = s.deps
    /\ effects' = s.effects /\ has_effects' = s.has_effects
    /\ fn' = s.fn /\ teardown' = s.teardown /\ parent' = s.parent
    /\ next' = s.next /\ prev' = s.prev /\ head' = s.head /\ tail' = s.tail
    /\ root_idx' = s.root_idx /\ reaction_stack' = s.reaction_stack
    /\ queue' = s.queue /\ tracking' = s.tracking
    /\ active_fork' = s.active_fork /\ applying_fork' = s.applying_fork
    /\ forks' = s.forks /\ root_index' = s.root_index
    /\ microtasks' = s.microtasks /\ n_effects' = s.n_effects
    /\ stale' = s.stale /\ threw' = s.threw /\ last' = s.last /\ inval' = s.inval
    /\ spent' = s.spent
    /\ op' = [kind |-> kind, node |-> node, val |-> val, prog |-> p,
              exc |-> s.exc, ret |-> s.ret, calls |-> s.calls, cleaned |-> s.cleaned,
              pushed |-> s.pushed, raised |-> s.raised, flaws |-> s.flaws, pre |-> Pre]
    /\ steps' = steps + 1

\* The state after the module has been evaluated and the sources and
\* deriveds of the page have been created.
Init ==
    /\ v = [n \in ValNodes |-> IF n \in Sources THEN 0 ELSE NullV]
    /\ f = [n \in Nodes |-> IF n \in Deriveds THEN {"UNINITIALIZED", "DERIVED"} ELSE {}]
    /\ reactions = [n \in ValNodes |-> << >>]
    /\ has_reactions = {}
    /\ deps = [n \in Reactions |-> << >>]
    /\ effects = [n \in Deriveds |-> << >>]
    /\ has_effects = {}
    /\ fn = [e \in Effects |-> "nop"]
    /\ teardown = [e \in Effects |-> "none"]
    /\ parent = [e \in Effects |-> NULL]
    /\ next = [e \in Effects |-> NULL]
    /\ prev = [e \in Effects |-> NULL]
    /\ head = [e \in Effects |-> NULL]
    /\ tail = [e \in Effects |-> NULL]
    /\ root_idx = [e \in Effects |-> NullV]
    /\ reaction_stack = << >>
    /\ queue = << >>
    /\ tracking = TRUE
    /\ active_fork = 0
    /\ applying_fork = 0
    /\ forks = << >>
    /\ root_index = 0
    /\ microtasks = 0
    /\ n_effects = 0
    /\ handles = {}
    /\ disposers = {}
    /\ disposed = {}
    /\ entered = {}
    /\ pending = {}
    /\ due = {}
    /\ stale = {}
    /\ threw = FALSE
    /\ last = [n \in Deriveds |-> <<"none", 0>>]
    /\ inval = {}
    /\ spent = {}
    /\ steps = 0
    /\ op = [kind |-> "init", node |-> NULL, val |-> 0, prog |-> "nop",
             exc |-> "none", ret |-> 0, calls |-> [n \in Reactions |-> 0],
             cleaned |-> [e \in Effects |-> 0], pushed |-> [e \in Effects |-> 0],
             raised |-> {}, flaws |-> {}, pre |-> Pre]

\* The page is responsive: the last call returned, and the bound on the
\* length of a behaviour leaves room.
Ready == op.exc # "hang" /\ steps < MaxSteps

\* ------------------------------------------------------------- operations
\* read() of a signal or a derived, called from the top level.
SignalRead(n) ==
    /\ Ready
    /\ Commit(get(St, n), "read", n, 0, "nop")
    /\ UNCHANGED <<pending, handles, disposers, disposed, entered, due>>

\* write(val) of a signal, called from the top level.
SignalWrite(s, val) ==
    /\ Ready
    /\ Commit(set(St, s, val), "write", s, val, "nop")
    /\ UNCHANGED <<pending, handles, disposers, disposed, entered, due>>

\* effect(fn), called from the top level.
EffectCall(p) ==
    /\ Ready
    /\ Commit(create_effect(St, p, {}), "effect", Eff(n_effects + 1), 0, p)
    /\ UNCHANGED <<pending, handles, disposers, disposed, entered, due>>

\* const dispose = root(fn)
RootCall(p) ==
    /\ Ready
    /\ Commit(root(St, p), "root", Eff(n_effects + 1), 0, p)
    /\ disposers' = IF op'.exc = "none" THEN disposers \cup {Eff(n_effects + 1)} ELSE disposers
    /\ UNCHANGED <<pending, handles, disposed, entered, due>>

\* dispose()
Dispose(e) ==
    /\ Ready
    /\ e \in disposers
    /\ Commit(teardown_effect(St, e), "dispose", e, 0, "nop")
    /\ disposed' = disposed \cup {e}
    /\ UNCHANGED <<pending, handles, disposers, entered, due>>

\* const instance = fork(fn), fn synchronous
ForkCall(p) ==
    /\ Ready
    /\ Len(forks) < MaxForks
    /\ Commit(fork(St, p), "fork", NULL, Len(forks) + 1, p)
    /\ handles' = IF op'.exc = "none" THEN handles \cup {Len(forks) + 1} ELSE handles
    /\ UNCHANGED <<pending, disposers, disposed, entered, due>>

\* instance.with(fn)
ForkWith(fk, p) ==
    /\ Ready
    /\ fk \in handles
    /\ Commit(fork_with(St, fk, p), "with", NULL, fk, p)
    /\ entered' = entered \cup {<<fk, p>>}
    /\ UNCHANGED <<pending, handles, disposers, disposed, due>>

\* instance.apply()
ForkApply(fk) ==
    /\ Ready
    /\ fk \in handles
    /\ Commit(fork_apply(St, fk), "apply", NULL, fk, "nop")
    /\ due' = {e \in Effects : \E s \in Sources : v'[s] # v[s] /\ Includes(reactions[s], e)}
    /\ entered' = entered \cup {<<fk, "apply">>}
    /\ UNCHANGED <<pending, handles, disposers, disposed>>

\* The microtask checkpoint reached: one queued drain callback runs.
Microtask ==
    /\ Ready
    /\ microtasks > 0
    /\ Commit(drain([St EXCEPT !.microtasks = @ - 1]), "drain", NULL, 0, "nop")
    /\ due' = {}
    /\ UNCHANGED <<pending, handles, disposers, disposed, entered>>

\* write(prev => prev ? 0 : 1) of a signal, called from the top level.
SignalUpdate(s) ==
    /\ Ready
    /\ Commit(set(ObserveUpdate(St, s), s, Toggle(v[s])), "update", s, Toggle(v[s]), "nop")
    /\ UNCHANGED <<pending, handles, disposers, disposed, entered, due>>

\* const promise = fork(async fn): fn has run up to its first await.
ForkBegin(p) ==
    /\ Ready
    /\ Len(forks) < MaxForks + 1
    /\ Commit(fork_async(St, p), "begin", NULL, Len(forks) + 1, p)
    /\ pending' = pending \cup {<<Len(forks) + 1, active_fork>>}
    /\ UNCHANGED <<handles, disposers, disposed, entered, due>>

\* The promise of an async fn fulfils: the callback given to then() runs.
ForkSettle(win) ==
    /\ Ready
    /\ win \in pending
    /\ Commit(settle(St, win[2]), "settle", NULL, win[1], "nop")
    /\ pending' = pending \ {win}
    /\ handles' = handles \cup {win[1]}
    /\ UNCHANGED <<disposers, disposed, entered, due>>

\* ------------------------------------------------------------- specifications
\* A page with the deriveds b, c, d, m and w, nested effects and forks.
Signals == {x, y, b, c, d, m, w}
EffectFns == {"d", "xy", "y?throw", "x,eff y"}
RootFns == {"eff x+clean"}
ForkFns == {"set y,set x,get b"}
WithFns == {"reset x,get b", "get w"}

Next ==
    \/ \E n \in Signals : SignalRead(n)
    \/ \E s \in Sources, val \in 0..MaxVal : SignalWrite(s, val)
    \/ \E p \in EffectFns : EffectCall(p)
    \/ \E p \in RootFns : RootCall(p)
    \/ \E e \in Effects : Dispose(e)
    \/ \E p \in ForkFns : ForkCall(p)
    \/ \E fk \in 1..MaxForks, p \in WithFns : ForkWith(fk, p)
    \/ \E fk \in 1..MaxForks : ForkApply(fk)
    \/ Microtask

Spec == Init /\ [][Next]_vars

\* A page with the derived t, whose fn throws while y is set, effects whose
\* cleanup throws or that write what they read, a root that returns a
\* cleanup, and a fork whose fn reads t.
FaultSignals == {x, y, t}
FaultEffectFns == {"t", "x+badclean", "y,clear y"}
FaultRootFns == {"x+clean"}
FaultForkFns == {"get t"}

FaultNext ==
    \/ \E n \in FaultSignals : SignalRead(n)
    \/ \E s \in Sources, val \in 0..MaxVal : SignalWrite(s, val)
    \/ \E p \in FaultEffectFns : EffectCall(p)
    \/ \E p \in FaultRootFns : RootCall(p)
    \/ \E e \in Effects : Dispose(e)
    \/ \E p \in FaultForkFns : ForkCall(p)
    \/ Microtask

FaultSpec == Init /\ [][FaultNext]_vars

\* A page with the derived u, which reads x inside untrack, effects that
\* read inside untrack, return a cleanup only sometimes or create a root,
\* writes with an updater, and forks that write a signal twice.
ScopeSignals == {x, y, u}
ScopeEffectFns == {"untrack(untrack x,y),x", "untrack(y?throw),x", "y|clean", "x,root y"}
ScopeForkFns == {"set x,toggle x", "null x,set x"}

ScopeNext ==
    \/ \E n \in ScopeSignals : SignalRead(n)
    \/ \E s \in Sources, val \in 0..MaxVal : SignalWrite(s, val)
    \/ \E s \in Sources : SignalUpdate(s)
    \/ \E p \in ScopeEffectFns : EffectCall(p)
    \/ \E p \in ScopeForkFns : ForkCall(p)
    \/ Microtask

ScopeSpec == Init /\ [][ScopeNext]_vars

\* A page with an effect on the derived m, a fork that is applied, and
\* forks with an async fn, whose windows may overlap.
CommitSignals == {x, y, m}
CommitEffectFns == {"m", "xy"}
CommitForkFns == {"set x,get m"}
AsyncForkFns == {"set y"}

CommitNext ==
    \/ \E n \in CommitSignals : SignalRead(n)
    \/ \E s \in Sources, val \in 0..MaxVal : SignalWrite(s, val)
    \/ \E p \in CommitEffectFns : EffectCall(p)
    \/ \E p \in CommitForkFns : ForkCall(p)
    \/ \E fk \in 1..MaxForks : ForkApply(fk)
    \/ \E p \in AsyncForkFns : ForkBegin(p)
    \/ \E fk \in 1..(MaxForks + 1), prev_fork \in 0..(MaxForks + 1) : ForkSettle(<<fk, prev_fork>>)
    \/ Microtask

CommitSpec == Init /\ [][CommitNext]_vars

\* A page with the derived g, whose fn creates two effects, the derived t,
\* whose fn throws while y is set, an effect that reads b inside untrack,
\* an effect that creates a child reading what it reads, and a fork that
\* is applied.
EdgeSignals == {x, y, b, t, g}
EdgeEffectFns == {"t", "untrack b", "y,eff y"}
EdgeForkFns == {"set y"}

EdgeNext ==
    \/ \E n \in EdgeSignals : SignalRead(n)
    \/ \E s \in Sources, val \in 0..MaxVal : SignalWrite(s, val)
    \/ \E p \in EdgeEffectFns : EffectCall(p)
    \/ \E p \in EdgeForkFns : ForkCall(p)
    \/ \E fk \in 1..MaxForks : ForkApply(fk)
    \/ Microtask

EdgeSpec == Init /\ [][EdgeNext]_vars

\* ------------------------------------------------------------- properties
NoDup(seq) == \A i, j \in 1..Len(seq) : seq[i] = seq[j] => i = j
Created == {Eff(k) : k \in 1..n_effects}

\* C1: in every reachable state a reaction occurs in a node's reactions
\* exactly if the node occurs in the reaction's deps, and neither sequence
\* holds a node twice.
C1_EdgesSymmetric ==
    /\ \A s \in ValNodes, r \in Reactions : Includes(reactions[s], r) <=> Includes(deps[r], s)
    /\ \A s \in ValNodes : NoDup(reactions[s])
    /\ \A r \in Reactions : NoDup(deps[r])

\* A read re-evaluated m, which dropped a dependency it had.
C1_Witness ==
    /\ op.kind = "read" /\ op.node = m /\ op.calls[m] = 1
    /\ Len(op.pre.deps[m]) > Len(deps[m])
    /\ deps[m] # << >>

\* C2: an effect is in the queue at most once, and a drain executes the fn
\* of every effect that was queued when it began exactly once (and once more
\* for every time the drain itself queued it again).
C2_BatchedOnce ==
    /\ NoDup(queue)
    /\ op.kind = "drain" =>
         \A e \in Range(op.pre.queue) : op.calls[e] = 1 + op.pushed[e]

\* C3: where no fork was made and no closure threw, no read from the top
\* level and no read by an effect fn the drain runs has returned a value of
\* a derived other than its fn over the current source values.
C3_GlitchFree ==
    (~threw /\ forks = << >>) => stale \cap {"top", "drain"} = {}

\* The drain ran an effect that read the diamond d = b + c after x was written.
C3_Witness ==
    /\ ~threw /\ forks = << >>
    /\ op.kind = "drain"
    /\ \E e \in Created : fn[e] = "d" /\ op.calls[e] = 1
    /\ v[x] = 1 /\ v[d] = 4

\* C4: a write invokes the fn of no derived whose reactions held no reaction
\* when the write began.
C4_LazyNotInvoked ==
    op.kind = "write" =>
        \A n \in Deriveds : op.pre.reactions[n] = << >> => op.calls[n] = 0

\* C5: where no fork was made, the first read of a derived invokes its fn once;
\* the read that follows a change of a dependency of an unread derived
\* invokes it once and returns fn over the current sources; a read with no
\* change of any source since the last one invokes it zero times and returns
\* the same value.
C5_Memoised ==
    (op.kind = "read" /\ op.node \in Deriveds /\ forks = << >>) =>
        /\ "UNINITIALIZED" \in op.pre.f[op.node] => op.calls[op.node] = 1
        /\ op.node \in op.pre.inval =>
              op.calls[op.node] = 1 /\ PureEval(v, op.node) = <<"val", op.ret>>
        /\ op.pre.last[op.node][1] = "val" =>
              op.calls[op.node] = 0 /\ op.ret = op.pre.last[op.node][2]

\* C6: a write of the value the source already holds, no fork active,
\* changes no value, flag, edge or queue entry, invokes no fn and schedules
\* no drain.
C6_SameValueSet ==
    (op.kind = "write" /\ op.pre.active_fork = 0 /\ op.pre.v[op.node] = op.val) =>
        /\ v = op.pre.v /\ f = op.pre.f
        /\ reactions = op.pre.reactions /\ deps = op.pre.deps
        /\ queue = op.pre.queue /\ microtasks = op.pre.microtasks
        /\ \A n \in Reactions : op.calls[n] = 0
        /\ op.exc = "none" /\ op.ret = op.val

\* A same-value write to a source that an effect and a derived subscribe to.
C6_Witness ==
    /\ op.kind = "write" /\ op.pre.active_fork = 0 /\ op.pre.v[op.node] = op.val
    /\ \E e \in Effects : Includes(reactions[op.node], e)
    /\ \E n \in Deriveds : Includes(reactions[op.node], n)

\* C7: a read of w, whose fn sets x, raises state_unsafe_mutation to its
\* caller and leaves every stored value, every fork map, the queue and the
\* reaction stack as they were.
C7_UnsafeMutation ==
    \/ op.kind = "read" /\ op.node = w
    \/ op.kind = "with" /\ op.prog = "get w"
    => /\ op.exc = "state_unsafe_mutation"
       /\ v = op.pre.v
       /\ forks = op.pre.forks
       /\ queue = op.pre.queue /\ microtasks = op.pre.microtasks
       /\ reaction_stack = op.pre.reaction_stack

\* w was read while x was 0 and had subscribers: the set would have changed it.
C7_Witness ==
    /\ op.kind = "read" /\ op.node = w /\ op.calls[w] = 1
    /\ v[x] = 0 /\ reactions[x] # << >>

\* Is effect e a root in roots, or created (transitively) while one ran?
RECURSIVE Under(_, _)
Under(e, roots) ==
    /\ e # NULL
    /\ e \in roots \/ Under(parent[e], roots)

\* C8: once a root's disposer was called, the effects created while the
\* root's fn ran are subscribed to nothing, their cleanups were invoked by
\* the disposal, and no later operation executes their fn.
C8_DisposedNeverRun ==
    \A e \in Created :
        Under(e, disposed) =>
            /\ \A s \in ValNodes : ~Includes(reactions[s], e)
            /\ op.kind = "dispose" /\ teardown[e] # "none" => op.cleaned[e] >= 1
            /\ op.kind # "dispose" => op.calls[e] = 0

\* C9: a synchronous fork, and a with(g), leave the queue and the pending
\* drains as they were and invoke and queue no effect; after fork returns
\* every stored value is what it was, and a read of each source outside
\* returns it.
C9_ForkIsolation ==
    /\ op.kind \in {"fork", "with"} =>
          /\ queue = op.pre.queue /\ microtasks = op.pre.microtasks
          /\ \A e \in Effects : op.calls[e] = 0 /\ op.pushed[e] = 0
    /\ (op.kind = "fork" /\ op.exc = "none" /\ op.pre.active_fork = 0) =>
          /\ v = op.pre.v
          /\ \A s \in Sources : get(St, s).ret = op.pre.v[s]

\* fork(fn) wrote x while an effect subscribed to x, and re-evaluated a derived.
C9_Witness ==
    /\ op.kind = "fork" /\ op.exc = "none"
    /\ MapHas(forks[op.val], x) /\ MapGet(forks[op.val], x) # v[x]
    /\ \E e \in Effects : Includes(reactions[x], e)
    /\ \E n \in Deriveds : op.calls[n] > 0 /\ MapHas(forks[op.val], n)

\* C10: after apply() has returned, no fork active, a read of every source
\* the fork wrote returns the value the fork holds for it; a drain is pending
\* for the effects subscribed to the sources apply changed, and that drain
\* executes each of them exactly once.
C10_ApplyCommits ==
    /\ (op.kind = "apply" /\ op.pre.active_fork = 0 /\ op.exc # "hang") =>
          \A s \in Sources : MapHas(op.pre.forks[op.val], s) =>
              get(St, s).ret = MapGet(op.pre.forks[op.val], s)
    /\ (due # {} /\ op.exc # "hang") => microtasks > 0
    /\ op.kind = "drain" => \A e \in op.pre.due : op.calls[e] = 1

\* C11: inside the body of a fork (fn, or the g of with) every read returns
\* what the node is over the values visible in that fork: a source its
\* shadow value when it has one, a derived its fn over those values.
C11_ForkReads == "fork" \notin stale

\* C12: after a fork whose instance was never entered again (no apply, no
\* with) has returned, a read of a derived from the top level returns its fn
\* over the committed source values.
C12_AfterFork ==
    (/\ op.kind = "read" /\ op.node \in Deriveds /\ op.exc = "none"
     /\ forks # << >> /\ entered = {} /\ active_fork = 0)
    => PureEval(v, op.node) = <<"val", op.ret>>

\* C13: when the fn of the effect that effect() or root() creates throws on
\* its first run, the call throws; when the fn of an effect throws in a
\* drain, the drain throws.
C13_Propagates ==
    /\ (op.kind \in {"effect", "root"} /\ op.node \in op.raised) => op.exc # "none"
    /\ (op.kind = "drain" /\ op.raised \cap Effects # {}) => op.exc # "none"

\* C14: calling a disposer again invokes no cleanup and changes nothing.
C14_DisposeOnce ==
    (op.kind = "dispose" /\ op.node \in op.pre.disposed) =>
        /\ \A e \in Effects : op.cleaned[e] = 0
        /\ v = op.pre.v /\ reactions = op.pre.reactions /\ deps = op.pre.deps
        /\ teardown = op.pre.teardown /\ queue = op.pre.queue

\* C15: a drain schedules no further drain (never more than one is pending),
\* and every effect queued while it ran was executed before it returned.
C15_OneDrain ==
    /\ microtasks <= 1
    /\ op.kind = "drain" =>
          /\ microtasks = op.pre.microtasks - 1
          /\ \A e \in Effects : op.pushed[e] > 0 => op.calls[e] >= op.pushed[e] /\ ~Includes(queue, e)

\* C16: effect() invokes fn exactly once; a write never invokes the fn of an
\* effect; a write outside a fork that changes a source queues every live
\* effect subscribed to it, and a drain is pending whenever effects are
\* queued, so each is re-executed.
C16_EffectRuns ==
    /\ (op.kind = "effect" /\ op.exc # "hang") => op.calls[op.node] = 1
    /\ op.kind = "write" => \A e \in Effects : op.calls[e] = 0
    /\ (/\ op.kind = "write" /\ op.exc = "none" /\ op.pre.active_fork = 0
        /\ op.pre.v[op.node] # op.val)
       => \A e \in Created : (Includes(op.pre.reactions[op.node], e) /\ ~Under(e, disposed))
                                => Includes(queue, e)
    /\ (queue # << >> /\ op.exc # "hang") => microtasks > 0

\* C17: when fork(fn) completes, by returning or by throwing, active_fork
\* is what it was before the call.
C17_ForkRestores ==
    (op.kind = "fork" /\ op.exc # "hang") => active_fork = op.pre.active_fork

\* C18: with(g) leaves the fork's own map, every source's stored value and
\* active_fork as they were, whether g returns or throws; apply() then
\* stores in each source the value the fork's map holds for it, and leaves
\* the other sources alone.
C18_WithFrame ==
    /\ (op.kind = "with" /\ op.exc # "hang") =>
          /\ forks = op.pre.forks
          /\ \A s \in Sources : v[s] = op.pre.v[s]
          /\ active_fork = op.pre.active_fork
    /\ (op.kind = "apply" /\ op.exc = "none" /\ op.pre.active_fork = 0) =>
          \A s \in Sources : v[s] = IF MapHas(op.pre.forks[op.val], s)
                                    THEN MapGet(op.pre.forks[op.val], s)
                                    ELSE op.pre.v[s]

\* The fork wrote x = 1, with(g) wrote x = 0 into its clone, and the first
\* apply() after it stored 1 in x.
C18_Witness ==
    /\ op.kind = "apply" /\ op.exc = "none"
    /\ <<op.val, "reset x,get b">> \in op.pre.entered
    /\ <<op.val, "apply">> \notin op.pre.entered
    /\ op.pre.v[x] = 0 /\ v[x] = 1

\* C19: when the fn of a derived throws while a read or a write evaluates
\* it, the derived's stored value and its shadow value in every fork are
\* what they were, the read or write throws, and the reaction stack is as
\* deep as before.
C19_ThrowKeepsValue ==
    op.kind \in {"read", "write"} =>
        \A n \in op.raised \cap Deriveds :
            /\ v[n] = op.pre.v[n]
            /\ Len(forks) = Len(op.pre.forks)
            /\ \A k \in 1..Len(forks) :
                  /\ MapHas(forks[k], n) <=> MapHas(op.pre.forks[k], n)
                  /\ MapHas(forks[k], n) => MapGet(forks[k], n) = MapGet(op.pre.forks[k], n)
            /\ op.exc \in {"Error", "state_unsafe_mutation"}
            /\ reaction_stack = op.pre.reaction_stack

\* A write re-evaluated t, which an effect reads and which held 1, and its
\* fn threw.
C19_Witness ==
    /\ op.kind = "write" /\ op.node = y /\ t \in op.raised
    /\ op.pre.v[t] = 1 /\ op.pre.reactions[t] # << >>

\* C20: when a cleanup throws in a drain or a dispose, the operation throws,
\* and the cleanup of every effect the operation was to tear down has been
\* invoked.
C20_CleanupsAllRun ==
    /\ (/\ op.kind \in {"drain", "dispose"}
        /\ \E e \in Effects : op.cleaned[e] > 0 /\ op.pre.teardown[e] = "throw")
       => op.exc = "Error"
    /\ op.kind = "drain" =>
          \A e \in Range(op.pre.queue) : op.pre.teardown[e] # "none" => op.cleaned[e] >= 1
    /\ (op.kind = "dispose" /\ op.pre.teardown[op.node] # "none") => op.cleaned[op.node] >= 1

\* C21: a read inside untrack(fn) adds no edge between the running reaction
\* and the node read and returns the node's current value; once untrack has
\* returned or thrown, nested or not, tracking is what it was: the reads
\* that follow are tracked, and tracking is on between operations.
C21_Untrack ==
    /\ tracking
    /\ ~Includes(deps[u], x) /\ ~Includes(reactions[x], u)
    /\ \A e \in Created :
          /\ fn[e] \in {"untrack(untrack x,y),x", "untrack(y?throw),x"} =>
                ~Includes(deps[e], y) /\ ~Includes(reactions[y], e)
          /\ fn[e] = "untrack(untrack x,y),x" => deps[e] = <<x>>
    /\ (op.kind = "read" /\ op.node = u /\ op.calls[u] = 1 /\ active_fork = 0) =>
          PureEval(v, u) = <<"val", op.ret>>

\* A drain has run again an effect that reads y inside a nested untrack,
\* after y and x were written, and a read has evaluated u since.
C21_Witness ==
    /\ \E e \in Created : fn[e] = "untrack(untrack x,y),x" /\ deps[e] = <<x>>
    /\ v[y] = 1 /\ v[x] = 1
    /\ op.kind = "read" /\ op.node = u /\ op.calls[u] = 1 /\ op.ret = 2
    /\ op.pre.microtasks = 0 /\ op.pre.queue = << >> /\ op.pre.n_effects > 0

\* C22: write(v) stores v and returns v; write(f) hands f the value read()
\* would return (the shadow value inside a fork that has one), stores what
\* f returns and returns it.
C22_WriteReturns ==
    /\ "updater" \notin op.flaws
    /\ (op.kind \in {"write", "update"} /\ op.exc = "none" /\ op.pre.active_fork = 0) =>
          v[op.node] = op.val /\ op.ret = op.val

\* C23: no cleanup is invoked a second time, and a drain invokes the cleanup
\* an effect holds before it runs the effect's fn again.
C23_CleanupOnce ==
    /\ "cleanup_twice" \notin op.flaws
    /\ op.kind = "drain" =>
          \A e \in Effects : (op.calls[e] > 0 /\ op.pre.teardown[e] # "none") => op.cleaned[e] >= 1

\* C24: an effect without a parent has a root_index, greater than that of
\* every parentless effect created before it; an effect with a parent has
\* none.
C24_RootIndex ==
    /\ \A e \in Created : parent[e] = NULL <=> root_idx[e] # NullV
    /\ \A e1, e2 \in Created :
          (parent[e1] = NULL /\ parent[e2] = NULL /\ e1[2] < e2[2]) => root_idx[e1] < root_idx[e2]

\* The effects that existed before the last operation.
Older == {Eff(k) : k \in 1..op.pre.n_effects}

\* C25: when a drain has run the fn of an effect again, every effect created
\* under it by an earlier run has been torn down: its cleanup was invoked
\* and no source or derived still lists it as a reaction.
C25_ChildrenTornDown ==
    op.kind = "drain" =>
        \A e \in Older : (parent[e] \in Effects /\ op.calls[parent[e]] > 0) =>
            /\ \A s \in ValNodes : ~Includes(reactions[s], e)
            /\ op.pre.teardown[e] # "none" => op.cleaned[e] >= 1

\* C26: the child list of every effect is a doubly-linked list of its own
\* children in creation order that ends in tail, and after effect(fn) has
\* returned, every effect created under a parent while fn ran is in its
\* parent's child list.
C26_SiblingList ==
    /\ \A e \in Created :
          LET list == ListFrom(St, head[e], MaxEffects + 1) IN
          /\ NoDup(list)
          /\ \A i \in 1..Len(list) :
                /\ parent[list[i]] = e
                /\ prev[list[i]] = IF i = 1 THEN NULL ELSE list[i - 1]
                /\ i < Len(list) => list[i][2] < list[i + 1][2]
          /\ tail[e] = IF list = << >> THEN NULL ELSE list[Len(list)]
    /\ (op.kind = "effect" /\ op.exc = "none") =>
          \A e \in Created \ Older :
              parent[e] \in Effects =>
                  Includes(ListFrom(St, head[parent[e]], MaxEffects + 1), e)

\* C27: once apply() has been called and no fork is active, a read of a
\* derived that the fork's map holds returns its fn over the stored source
\* values, and no effect run by a drain has read a stale derived (stated
\* for behaviours in which every read made inside a fork returned the
\* right value).
C27_AfterApply ==
    "fork" \notin stale =>
        /\ (/\ op.kind = "read" /\ op.node \in Deriveds /\ op.exc = "none" /\ active_fork = 0
            /\ \E k \in 1..Len(forks) :
                  <<k, "apply">> \in op.pre.entered /\ MapHas(forks[k], op.node))
           => PureEval(v, op.node) = <<"val", op.ret>>
        /\ (\E k \in 1..Len(forks) : <<k, "apply">> \in entered) => "drain" \notin stale

\* C28: once the promise of every async fork has settled, active_fork is
\* null again.
C28_WindowsClosed == (pending = {} /\ op.exc # "hang") => active_fork = 0

\* C29: an effect that a drain runs while the window of an async fork is
\* open reads the stored value of every source, not the fork's.
C29_DrainInWindow == (op.kind = "drain" /\ op.pre.pending # {}) => "exposed" \notin op.flaws

\* C30: a set made in a fork on a source that has a shadow value there
\* leaves the value set as the shadow value.
C30_ShadowCompared == "shadow" \notin op.flaws

\* C31: when apply() has returned or thrown, applying_fork is what it was
\* before the call.
C31_ApplyRestores ==
    (op.kind = "apply" /\ op.exc # "hang") => applying_fork = op.pre.applying_fork

\* C32: of the effects that a write outside a fork finds subscribed to the
\* source and not DIRTY, exactly those with no ancestor among them (parent
\* links followed up to the first derived) are appended to the queue.
C32_Filtered ==
    (op.kind = "write" /\ op.pre.active_fork = 0 /\ op.pre.v[op.node] # op.val) =>
        LET to_check == SelectSeq(op.pre.reactions[op.node],
                                  LAMBDA r : r \in Effects /\ "DIRTY" \notin op.pre.f[r])
        IN  \A e \in Range(to_check) :
                op.pushed[e] = 1 <=> ~AncestorIn(St, parent[e], to_check)

\* C33: the effects one write has queued, the queue having been empty, stand
\* in the queue (which the drain runs front to back) by non-decreasing
\* depth, the parentless ones among them in the order of their creation.
C33_DrainOrder ==
    (op.kind = "write" /\ op.exc = "none" /\ op.pre.queue = << >>) =>
        \A i, j \in 1..Len(queue) :
            i < j =>
                /\ get_effect_depth(St, queue[i]) <= get_effect_depth(St, queue[j])
                /\ (parent[queue[i]] = NULL /\ parent[queue[j]] = NULL) =>
                      root_idx[queue[i]] < root_idx[queue[j]]

\* C34: every write completes: it returns or it throws.
C34_SetCompletes == op.kind = "write" => op.exc # "hang"

\* C35: while the queue is not empty a drain is pending, also after a drain
\* that threw; and after a write outside a fork has changed a source that
\* an effect is subscribed to, a drain is pending.
C35_DrainPending ==
    op.exc # "hang" =>
        /\ queue = << >> \/ microtasks > 0
        /\ (/\ op.kind = "write" /\ op.exc = "none" /\ op.pre.active_fork = 0
            /\ op.pre.v[op.node] # op.val
            /\ \E e \in Effects : Includes(op.pre.reactions[op.node], e))
           => microtasks > 0

\* C36: an effect is in the queue exactly if its DIRTY flag is set, and no
\* effect is in the queue twice.
C36_QueueIffDirty ==
    /\ NoDup(queue)
    /\ \A e \in Effects : Includes(queue, e) <=> "DIRTY" \in f[e]

\* A drain ran an effect that queued itself again by writing what it reads.
C36_Witness ==
    /\ op.kind = "drain"
    /\ \E e \in Effects : op.calls[e] >= 1 /\ op.pushed[e] >= 1 /\ Includes(queue, e)

\* C37: no operation raises a TypeError of the runtime's own; a drain runs
\* again every queued effect that was created inside a derived's fn; and a
\* write outside a fork that changes a source queues every effect created
\* inside a derived's fn that is subscribed to it.
C37_DerivedOwned ==
    /\ op.exc # "TypeError"
    /\ op.kind = "drain" =>
          \A e \in Range(op.pre.queue) : parent[e] \in Deriveds => op.calls[e] = 1
    /\ (op.kind = "write" /\ op.pre.active_fork = 0 /\ op.pre.v[op.node] # op.val) =>
          \A e \in Created :
              (parent[e] \in Deriveds /\ Includes(op.pre.reactions[op.node], e)) =>
                  Includes(queue, e)

\* C38: where no fork was made, a read of b from the top level returns b's
\* fn over the current source values, also after an effect has read b
\* inside untrack.
C38_UntrackedDerived ==
    (/\ op.kind = "read" /\ op.node = b /\ op.exc = "none" /\ forks = << >>
     /\ \E e \in Created : fn[e] = "untrack b")
    => PureEval(v, b) = <<"val", op.ret>>

\* C39: one write invokes the fn of each derived at most once, and the fn of
\* a derived never reads a derived whose value is not its fn over the
\* current source values.
C39_OncePerSet ==
    /\ op.kind = "write" => \A n \in Deriveds : op.calls[n] <= 1
    /\ "derived" \notin stale
====
